---- MODULE Spec2Model ----
(***************************************************************************)
(* A model of FileChangedCache (src/src/file-change-cache.js): the change  *)
(* cache of electron-compile.  Strings are sequences of one-character      *)
(* strings, file contents are sequences of bytes, decoded text is a        *)
(* sequence of UTF-16 code units.  The file system is the environment: it  *)
(* may rewrite, remove or replace a file between any two steps.            *)
(***************************************************************************)
EXTENDS Integers, Sequences, FiniteSets, TLC

\* ------------------------------------------------------------------ bounds

\* Timestamps (stat.ctime.getTime()) range over 0..MaxTime.
MaxTime == 1

\* Number of asynchronous getHashForPath calls that may be in flight.
NumProcs == 2

\* Length of the binary file of the model.
BinaryLen == 34

\* Length of the file of the model that only UTF-16LE decodes to text.
WideLen == 51

\* Lengths of the roots and paths the cache key is computed for.
MaxRootLen == 2
MaxPathLen == 3

\* Control characters at either end of the strings and buffers the static
\* classifiers are applied to.
MaxControls == 17

\* Newlines at either end of the texts contentsAreMinified is applied to.
MaxNewlines == 13

\* ------------------------------------------------------- program constants

MinifiedWindow == 1024
MinifiedLineLength == 80
EncodingWindow == 4096
MaxControlCount == 16
ControlBelow == 8
ReplacementSentinel == 65536

\* U+FFFD, what Buffer.prototype.toString puts for bytes it cannot decode.
ReplacementCharacter == 65533

\* ------------------------------------------------------ sequences, strings

\* TRUE when pat occurs in s at 1-based position i.
OccursAt(s, pat, i) ==
  /\ i >= 1
  /\ i + Len(pat) - 1 <= Len(s)
  /\ SubSeq(s, i, i + Len(pat) - 1) = pat

\* String.prototype.indexOf, 0-based, -1 when absent.
IndexOf(s, pat) ==
  LET hits == {i \in 1..(Len(s) + 1) : OccursAt(s, pat, i)}
  IN  IF hits = {} THEN -1
      ELSE (CHOOSE i \in hits : \A j \in hits : i <= j) - 1

\* String.prototype.lastIndexOf, 0-based, -1 when absent.
LastIndexOf(s, pat) ==
  LET hits == {i \in 1..(Len(s) + 1) : OccursAt(s, pat, i)}
  IN  IF hits = {} THEN -1
      ELSE (CHOOSE i \in hits : \A j \in hits : i >= j) - 1

\* A replace that removes the last occurrence.
ReplaceLastWithEmpty(s, pat) ==
  LET at == LastIndexOf(s, pat)
  IN  IF at < 0 THEN s
      ELSE SubSeq(s, 1, at) \o SubSeq(s, at + Len(pat) + 1, Len(s))

\* String.prototype.replace(pattern, '') with a non-regex pattern: only the
\* first occurrence, wherever it is, is removed.
ReplaceFirstWithEmpty(s, pat) ==
  LET at == IndexOf(s, pat)
  IN  IF at < 0 THEN s
      ELSE SubSeq(s, 1, at) \o SubSeq(s, at + Len(pat) + 1, Len(s))

\* --------------------------------------------------------------- literals

\* '\n'.
Newline == 10

\* 0.02 as the fraction RatioNum / RatioDen.
RatioNum == 2
RatioDen == 100

\* '//# sourceMap' as code units.
SourceMapMarker == <<47, 47, 35, 32, 115, 111, 117, 114, 99, 101, 77, 97, 112>>

Separators == {"\\", "/"}
NodeModulesName == <<"n","o","d","e","_","m","o","d","u","l","e","s">>
AtomAsarName == <<"a","t","o","m",".","a","s","a","r">>

\* The i flag of the node_modules pattern: letters of the name compare
\* without case.
UpperToLower ==
  [c \in {"N","O","D","E","M","U","L","S"} |->
     CASE c = "N" -> "n" [] c = "O" -> "o" [] c = "D" -> "d" [] c = "E" -> "e"
       [] c = "M" -> "m" [] c = "U" -> "u" [] c = "L" -> "l" [] c = "S" -> "s"]
LowerCase(s) ==
  [i \in 1..Len(s) |-> IF s[i] \in DOMAIN UpperToLower THEN UpperToLower[s[i]]
                       ELSE s[i]]

\* ------------------------------------------------------------- JS values

\* null / undefined, and a present value x, for the fields that may be either.
Null == <<>>
Some(x) == <<x>>
Value(v) == v[1]

\* ------------------------------------------------------ buffers and text

\* Buffer.prototype.toString('utf8'): an ASCII byte is its own code unit; a
\* byte that cannot start a UTF-8 sequence (the model uses 255) decodes to
\* the replacement character U+FFFD.
Utf8Decode(buf) ==
  [i \in 1..Len(buf) |-> IF buf[i] < 128 THEN buf[i] ELSE ReplacementCharacter]

\* Buffer.prototype.toString('utf16le'): one code unit per pair of bytes, low
\* byte first; a trailing odd byte is dropped.
Utf16leDecode(buf) ==
  [i \in 1..(Len(buf) \div 2) |-> buf[2 * i - 1] + 256 * buf[2 * i]]

Decode(buf, encoding) ==
  IF encoding = "utf8" THEN Utf8Decode(buf) ELSE Utf16leDecode(buf)

\* The UTF-8 bytes of a string of BMP code units (hash.update(str, 'utf8')).
Utf8EncodeUnit(c) ==
  IF c < 128 THEN <<c>>
  ELSE IF c < 2048 THEN <<192 + (c \div 64), 128 + (c % 64)>>
  ELSE <<224 + (c \div 4096), 128 + ((c \div 64) % 64), 128 + (c % 64)>>

RECURSIVE Utf8Encode(_)
Utf8Encode(str) ==
  IF str = <<>> THEN <<>>
  ELSE Utf8EncodeUnit(Head(str)) \o Utf8Encode(Tail(str))

\* crypto.createHash('sha1').update(bytes).digest('hex'): a collision-free
\* digest is the hashed bytes under a tag.
Sha1Hex(bytes) == [sha1 |-> bytes]

\* ----------------------------------------------------- static classifiers

\* containsControlCharacters, lines 181-193.  The early return inside the
\* loop fires exactly when the total count exceeds 16.
containsControlCharacters(str) ==
  LET controlCount ==
        Cardinality({i \in 1..Len(str) :
                       str[i] = ReplacementSentinel \/ str[i] < ControlBelow})
  IN  IF controlCount > MaxControlCount THEN TRUE
      ELSE IF controlCount = 0 THEN FALSE
      ELSE controlCount * RatioDen < RatioNum * Len(str)

\* detectFileEncoding, lines 168-179: "true" is the boolean true returned for
\* an empty buffer, "undefined" is _.find finding nothing.
detectFileEncoding(buffer) ==
  IF Len(buffer) < 1 THEN "true"
  ELSE LET buf == IF Len(buffer) < EncodingWindow THEN buffer
                  ELSE SubSeq(buffer, 1, EncodingWindow)
       IN  IF ~containsControlCharacters(Utf8Decode(buf)) THEN "utf8"
           ELSE IF ~containsControlCharacters(Utf16leDecode(buf)) THEN "utf16le"
           ELSE "undefined"

\* contentsAreMinified, lines 140-158: the length is clamped to 1024 but the
\* newlines are counted over the whole source.
contentsAreMinified(source) ==
  LET length == IF Len(source) > MinifiedWindow THEN MinifiedWindow
                ELSE Len(source)
      newlineCount == Cardinality({i \in 1..Len(source) : source[i] = Newline})
  IN  IF newlineCount = 0 THEN length > MinifiedLineLength
      ELSE length > MinifiedLineLength * newlineCount

\* hasSourceMap, lines 164-166.
hasSourceMap(sourceCode) ==
  LastIndexOf(sourceCode, SourceMapMarker) > LastIndexOf(sourceCode, <<Newline>>)

\* isInNodeModules, lines 160-162: /[\\\/]node_modules[\\\/]/i, or
\* /[\\\/]atom\.asar/ (case-sensitive, nothing required after it).
isInNodeModules(filePath) ==
  \/ \E i \in 1..Len(filePath) :
       /\ filePath[i] \in Separators
       /\ i + Len(NodeModulesName) + 1 <= Len(filePath)
       /\ LowerCase(SubSeq(filePath, i + 1, i + Len(NodeModulesName)))
            = NodeModulesName
       /\ filePath[i + Len(NodeModulesName) + 1] \in Separators
  \/ \E i \in 1..Len(filePath) :
       /\ filePath[i] \in Separators
       /\ OccursAt(filePath, AtomAsarName, i + 1)


\* ------------------------------------------------------------ the universe

\* The files of the model: "/a/b" lies under the root "/a", "/b" outside it.
PathAB == <<"/", "a", "/", "b">>
PathB == <<"/", "b">>
Paths == {PathAB, PathB}

\* The appRoot values given to the constructor: '' (no root) and "/a".
RootNone == <<>>
RootA == <<"/", "a">>
AppRoots == {RootNone, RootA}

\* File contents: empty, "A", "B" (same size as "A"), "A\n" (another size),
\* and BinaryLen NUL bytes, which neither encoding decodes to text.
DataEmpty == <<>>
DataA == <<65>>
DataB == <<66>>
DataALine == <<65, 10>>
DataBinary == [i \in 1..BinaryLen |-> 0]
Contents == {DataEmpty, DataA, DataB, DataALine, DataBinary}

\* The contents of sizes 0 and 1.
SmallContents == {DataEmpty, DataA, DataB}

Times == 0..MaxTime
Procs == 1..NumProcs

\* What the constructor and replace() use of appRoot: its truthiness and its
\* string form.
JsString(str) == [truthy |-> str # <<>>, str |-> str]
JsBoolean(b) ==
  [truthy |-> b,
   str |-> IF b THEN <<"t", "r", "u", "e">> ELSE <<"f", "a", "l", "s", "e">>]

\* A path of the file system: nothing, a directory, or a regular file with
\* its bytes and its ctime.
\* For a path that is no regular file, ctime keeps the last timestamp the
\* path had; stat never reports it.
NoFile(ctime) == [kind |-> "none", data |-> <<>>, ctime |-> ctime]
Directory(ctime) == [kind |-> "dir", data |-> <<>>, ctime |-> ctime]
RegularFile(data, ctime) == [kind |-> "file", data |-> data, ctime |-> ctime]

\* ------------------------------------------------------------------ state

VARIABLES
  appRoot,          \* this.appRoot
  failOnCacheMiss,  \* this.failOnCacheMiss
  changeCache,      \* this.changeCache: cache key -> {ctime, size, info}
  fs,               \* the file system: path -> file
  ctimeAdvances,    \* the file system's clock: TRUE when every write gives the
                    \* file a ctime greater than any the path had before
  snapshot,         \* the bytes save() wrote, Null before the first save
  procs,            \* the asynchronous getHashForPath calls in flight
  ret,              \* the outcome of the call the last step completed
  known,            \* per path, the facts its first successful synchronous
                    \* lookup returned since the file last changed
  run               \* the two concurrent calls under observation, if any:
                    \* the mapping they started from and their outcomes

vars ==
  <<appRoot, failOnCacheMiss, changeCache, fs, ctimeAdvances, snapshot, procs,
    ret, known, run>>

\* ------------------------------------------------------------- the lookup

\* Lines 26 and 66: the cache key of a path.
CacheKey(root, absoluteFilePath) ==
  IF root.truthy THEN ReplaceFirstWithEmpty(absoluteFilePath, root.str)
  ELSE absoluteFilePath

\* An instance that never takes the strict branch.
NeverStrict(strict) == FALSE

\* Lines 29 and 69: if (this.failOnCacheMiss).
IsStrict(strict) == strict

\* Lines 27 and 67: this.changeCache[cacheKey], Null when there is none.
CacheEntryOf(cache, cacheKey) ==
  IF cacheKey \in DOMAIN cache THEN Some(cache[cacheKey]) ELSE Null

\* Lines 44 and 84: delete this.changeCache.cacheEntry removes the property
\* named "cacheEntry", whatever the cache key is.
CacheEntryProperty == <<"c", "a", "c", "h", "e", "E", "n", "t", "r", "y">>
DeleteCacheEntryProperty(cache) ==
  [k \in DOMAIN cache \ {CacheEntryProperty} |-> cache[k]]

\* A check that wants the stored timestamp strictly newer.
EntryIsFreshIfNewer(cacheEntry, ctime, size) ==
  cacheEntry.ctime > ctime /\ cacheEntry.size = size

\* A check of the size alone.
EntryIsFreshBySize(cacheEntry, ctime, size) ==
  cacheEntry.size = size

\* A check of the timestamp alone.
EntryIsFreshByTime(cacheEntry, ctime, size) ==
  cacheEntry.ctime >= ctime

\* Lines 40 and 80: the stored entry answers for the current metadata.
EntryIsFresh(cacheEntry, ctime, size) ==
  cacheEntry.ctime >= ctime /\ cacheEntry.size = size

\* Lines 49-55 and 89-95.
BuildInfo(digest, sourceCode, binaryData, absoluteFilePath) ==
  LET text == IF sourceCode = Null THEN <<>> ELSE Value(sourceCode)
  IN  [hash |-> digest,
       isMinified |-> contentsAreMinified(text),
       isInNodeModules |-> isInNodeModules(absoluteFilePath),
       hasSourceMap |-> hasSourceMap(text),
       isFileBinary |-> binaryData # Null]

\* A store that leaves the size out of the entry.
StoreEntryWithoutSize(cache, cacheKey, ctime, size, info) ==
  [k \in DOMAIN cache \cup {cacheKey} |->
     IF k = cacheKey THEN [ctime |-> ctime, info |-> info] ELSE cache[k]]

\* A store that replaces the whole mapping by the one entry.
StoreEntryAlone(cache, cacheKey, ctime, size, info) ==
  [k \in {cacheKey} |-> [ctime |-> ctime, size |-> size, info |-> info]]

\* A store that stamps the entry with the latest time there is, not with the
\* time stat reported.
StoreEntryStampedLatest(cache, cacheKey, ctime, size, info) ==
  [k \in DOMAIN cache \cup {cacheKey} |->
     IF k = cacheKey THEN [ctime |-> MaxTime, size |-> size, info |-> info]
     ELSE cache[k]]

\* Lines 57 and 97: this.changeCache[cacheKey] = { ctime, size, info }.
StoreEntry(cache, cacheKey, ctime, size, info) ==
  [k \in DOMAIN cache \cup {cacheKey} |->
     IF k = cacheKey THEN [ctime |-> ctime, size |-> size, info |-> info]
     ELSE cache[k]]

\* A result that carries both content fields.
ReturnedWithBoth(info, sourceCode, binaryData) ==
  [binaryData |-> binaryData, sourceCode |-> sourceCode] @@ info

\* Lines 58-62 and 98-102: the facts extended with the content.
ReturnedOnMiss(info, sourceCode, binaryData) ==
  IF binaryData # Null
    THEN [binaryData |-> Value(binaryData)] @@ info
    ELSE [sourceCode |-> Value(sourceCode)] @@ info

\* The outcome of a completed call, as its caller sees it: how it ended, what
\* it returned, and how many stat and content-read requests it made.
Outcome(path, how, value, stats, reads) ==
  [path |-> path, how |-> how, value |-> value, stats |-> stats, reads |-> reads]
NoOutcome == Outcome(<<>>, "none", Null, 0, 0)

\* The five facts of a returned value, without the content.
InfoFields == {"hash", "isMinified", "isInNodeModules", "hasSourceMap", "isFileBinary"}
FactsOf(value) == [f \in InfoFields |-> value[f]]


\* ------------------------------------------------------- the file system

\* fs.stat: the request fails for a missing path.
StatFails(file) == file.kind = "none"
\* stat.isFile().
IsFile(file) == file.kind = "file"
\* stat.size.
SizeOf(file) == Len(file.data)
\* A read that never fails.
ReadNeverFails(file) == FALSE

\* fs.readFile: the request fails for a missing path and for a directory.
ReadFails(file) == file.kind # "file"

\* calculateHashForFileSync, lines 125-138, on the file as it is during the
\* call: how it ended, what it returned, and the reads it made.  An empty
\* buffer makes detectFileEncoding return true, and readFileSync(path, true)
\* throws a TypeError for the options argument.
calculateHashForFileSync(file) ==
  IF ReadFails(file)
    THEN [threw |-> "ReadError", reads |-> 1,
          sourceCode |-> Null, digest |-> Null, binaryData |-> Null]
  ELSE LET buf == file.data
           encoding == detectFileEncoding(buf)
       IN  IF encoding = "undefined"
             THEN [threw |-> "none", reads |-> 1,
                   sourceCode |-> Null, digest |-> Some(Sha1Hex(buf)),
                   binaryData |-> Some(buf)]
           ELSE IF encoding = "true"
             THEN [threw |-> "TypeError", reads |-> 1,
                   sourceCode |-> Null, digest |-> Null, binaryData |-> Null]
           ELSE LET sourceCode == Decode(file.data, encoding)
                IN  [threw |-> "none", reads |-> 2,
                     sourceCode |-> Some(sourceCode),
                     digest |-> Some(Sha1Hex(Utf8Encode(sourceCode))),
                     binaryData |-> Null]

\* ------------------------------------------------------------ persistence

\* A serializer that writes the last digit only.
LastDigitToJson(n) == <<n % 10>>

\* JSON.stringify of a number: its decimal digits; JSON.parse reads them back.
RECURSIVE NumberToJson(_)
NumberToJson(n) ==
  IF n < 10 THEN <<n>> ELSE NumberToJson(n \div 10) \o <<n % 10>>

RECURSIVE JsonToNumber(_)
JsonToNumber(digits) ==
  IF Len(digits) = 1 THEN digits[1]
  ELSE 10 * JsonToNumber(SubSeq(digits, 1, Len(digits) - 1)) + digits[Len(digits)]

\* JSON.stringify of a boolean: the token true or false.
BooleanToJson(b) == IF b THEN "true" ELSE "false"
JsonToBoolean(token) == token = "true"

\* One member of the serialized object: "key":{"ctime":..,"size":..,"info":{..}}.
EntryToJson(cacheKey, entry) ==
  [key |-> cacheKey,
   ctime |-> NumberToJson(entry.ctime),
   size |-> NumberToJson(entry.size),
   hash |-> entry.info.hash,
   isMinified |-> BooleanToJson(entry.info.isMinified),
   isInNodeModules |-> BooleanToJson(entry.info.isInNodeModules),
   hasSourceMap |-> BooleanToJson(entry.info.hasSourceMap),
   isFileBinary |-> BooleanToJson(entry.info.isFileBinary)]

JsonToEntry(member) ==
  [ctime |-> JsonToNumber(member.ctime),
   size |-> JsonToNumber(member.size),
   info |-> [hash |-> member.hash,
             isMinified |-> JsonToBoolean(member.isMinified),
             isInNodeModules |-> JsonToBoolean(member.isInNodeModules),
             hasSourceMap |-> JsonToBoolean(member.hasSourceMap),
             isFileBinary |-> JsonToBoolean(member.isFileBinary)]]

\* JSON.stringify(this.changeCache): the members one after the other.
RECURSIVE JsonStringify(_)
JsonStringify(cache) ==
  IF DOMAIN cache = {} THEN <<>>
  ELSE LET k == CHOOSE key \in DOMAIN cache : TRUE
       IN  <<EntryToJson(k, cache[k])>>
             \o JsonStringify([j \in DOMAIN cache \ {k} |-> cache[j]])

\* JSON.parse: an object with one property per member.
JsonParse(text) ==
  LET keys == {text[i].key : i \in 1..Len(text)}
  IN  [k \in keys |->
         JsonToEntry(text[CHOOSE i \in 1..Len(text) : text[i].key = k])]

\* zlib.gzip and zlib.gunzip: a lossless container around the text.
Gzip(text) == [magic |-> <<31, 139>>, deflated |-> text]
Gunzip(buf) == buf.deflated


\* ---------------------------------------------------------------- actions

\* getHashForPathSync, lines 65-103, as a function of the instance and of the
\* file as it is during the call: the mapping it leaves and its outcome.
getHashForPathSync(cache, root, strict, file, absoluteFilePath) ==
  LET cacheKey == CacheKey(root, absoluteFilePath)
      cacheEntry == CacheEntryOf(cache, cacheKey)
      ctime == file.ctime
      size == SizeOf(file)
      evicted == IF cacheEntry # Null THEN DeleteCacheEntryProperty(cache)
                 ELSE cache
      calc == calculateHashForFileSync(file)
      info == BuildInfo(Value(calc.digest), calc.sourceCode, calc.binaryData,
                        absoluteFilePath)
  IN  IF IsStrict(strict)
        THEN [changeCache |-> cache,
              ret |-> IF cacheEntry = Null
                        THEN Outcome(absoluteFilePath, "CacheMissError", Null, 0, 0)
                        ELSE Outcome(absoluteFilePath, "strict",
                                     Some(Value(cacheEntry).info), 0, 0)]
      ELSE IF StatFails(file) \/ ~IsFile(file)
        THEN [changeCache |-> cache,
              ret |-> Outcome(absoluteFilePath, "StatError", Null, 1, 0)]
      ELSE IF cacheEntry # Null /\ EntryIsFresh(Value(cacheEntry), ctime, size)
        THEN [changeCache |-> cache,
              ret |-> Outcome(absoluteFilePath, "hit",
                              Some(Value(cacheEntry).info), 1, 0)]
      ELSE IF calc.threw # "none"
        THEN [changeCache |-> evicted,
              ret |-> Outcome(absoluteFilePath, calc.threw, Null, 1, calc.reads)]
      ELSE [changeCache |-> StoreEntry(evicted, cacheKey, ctime, size, info),
            ret |-> Outcome(absoluteFilePath, "miss",
                            Some(ReturnedOnMiss(info, calc.sourceCode,
                                                calc.binaryData)),
                            1, calc.reads)]

\* A call of getHashForPathSync.
GetHashForPathSync(absoluteFilePath) ==
  LET done == getHashForPathSync(changeCache, appRoot, failOnCacheMiss,
                                 fs[absoluteFilePath], absoluteFilePath)
  IN  /\ changeCache' = done.changeCache
      /\ ret' = done.ret
      /\ known' = IF done.ret.how \in {"hit", "miss"} /\ known[absoluteFilePath] = Null
                    THEN [known EXCEPT ![absoluteFilePath] =
                            Some(FactsOf(Value(done.ret.value)))]
                  ELSE known
      /\ UNCHANGED <<appRoot, failOnCacheMiss, fs, ctimeAdvances, snapshot, procs,
                     run>>

\* An asynchronous call that is not running.
Idle == [pc |-> "idle"]

\* No calls under observation.
NoRun == [phase |-> "none"]

\* The observation after a step of call i: a call that completed leaves its
\* outcome, and the run is done when both have.
RunAfter(i, proc, outcome) ==
  IF run.phase = "running" /\ proc = Idle /\ i \in DOMAIN run.out
    THEN LET out == [run.out EXCEPT ![i] = Some(outcome)]
         IN  [run EXCEPT !.out = out,
                         !.phase = IF \A j \in DOMAIN out : out[j] # Null
                                     THEN "done" ELSE "running"]
  ELSE run

\* getHashForPath, lines 25-33: the synchronous start of the call.  In strict
\* mode the call completes here; otherwise it waits for fs.stat.  A new call
\* takes the first free slot.
Call(i, absoluteFilePath) ==
  LET cacheKey == CacheKey(appRoot, absoluteFilePath)
      cacheEntry == CacheEntryOf(changeCache, cacheKey)
  IN  /\ procs[i] = Idle
      /\ \A j \in Procs : j < i => procs[j] # Idle
      /\ UNCHANGED <<appRoot, failOnCacheMiss, changeCache, fs, ctimeAdvances,
                     snapshot, known, run>>
      /\ IF IsStrict(failOnCacheMiss)
           THEN /\ UNCHANGED procs
                /\ ret' = IF cacheEntry = Null
                            THEN Outcome(absoluteFilePath, "CacheMissError", Null, 0, 0)
                            ELSE Outcome(absoluteFilePath, "strict",
                                         Some(Value(cacheEntry).info), 0, 0)
         ELSE /\ procs' = [procs EXCEPT ![i] =
                             [pc |-> "stat", path |-> absoluteFilePath,
                              cacheKey |-> cacheKey, cacheEntry |-> cacheEntry]]
              /\ ret' = NoOutcome

\* getHashForPath, lines 34-47: fs.stat answers; the call fails, returns the
\* stored facts, or asks calculateHashForFile for the content (line 111).
StatDone(i) ==
  LET self == procs[i]
      stat == fs[self.path]
      ctime == stat.ctime
      size == SizeOf(stat)
  IN  /\ self.pc = "stat"
      /\ UNCHANGED <<appRoot, failOnCacheMiss, fs, ctimeAdvances, snapshot, known>>
      /\ IF StatFails(stat) \/ ~IsFile(stat)
           THEN /\ procs' = [procs EXCEPT ![i] = Idle]
                /\ ret' = Outcome(self.path, "StatError", Null, 1, 0)
                /\ UNCHANGED changeCache
         ELSE IF /\ self.cacheEntry # Null
                 /\ EntryIsFresh(Value(self.cacheEntry), ctime, size)
           THEN /\ procs' = [procs EXCEPT ![i] = Idle]
                /\ ret' = Outcome(self.path, "hit",
                                  Some(Value(self.cacheEntry).info), 1, 0)
                /\ UNCHANGED changeCache
         ELSE /\ changeCache' = IF self.cacheEntry # Null
                                  THEN DeleteCacheEntryProperty(changeCache)
                                  ELSE changeCache
              /\ procs' = [procs EXCEPT ![i] =
                             [pc |-> "read", path |-> self.path,
                              cacheKey |-> self.cacheKey,
                              ctime |-> ctime, size |-> size]]
              /\ ret' = NoOutcome
      /\ run' = RunAfter(i, procs'[i], ret')

\* calculateHashForFile, lines 111-119: the raw read answers.  A binary file
\* completes the call (lines 115-116, 49-59); an empty one makes
\* readFile(path, true) throw; a text file is read again with its encoding.
ReadDone(i) ==
  LET self == procs[i]
      file == fs[self.path]
      buf == file.data
      encoding == detectFileEncoding(buf)
      info == BuildInfo(Sha1Hex(buf), Null, Some(buf), self.path)
  IN  /\ self.pc = "read"
      /\ UNCHANGED <<appRoot, failOnCacheMiss, fs, ctimeAdvances, snapshot, known>>
      /\ IF ReadFails(file)
           THEN /\ procs' = [procs EXCEPT ![i] = Idle]
                /\ ret' = Outcome(self.path, "ReadError", Null, 1, 1)
                /\ UNCHANGED changeCache
         ELSE IF encoding = "undefined"
           THEN /\ procs' = [procs EXCEPT ![i] = Idle]
                /\ changeCache' = StoreEntry(changeCache, self.cacheKey,
                                             self.ctime, self.size, info)
                /\ ret' = Outcome(self.path, "miss",
                                  Some(ReturnedOnMiss(info, Null, Some(buf))), 1, 1)
         ELSE IF encoding = "true"
           THEN /\ procs' = [procs EXCEPT ![i] = Idle]
                /\ ret' = Outcome(self.path, "TypeError", Null, 1, 1)
                /\ UNCHANGED changeCache
         ELSE /\ procs' = [procs EXCEPT ![i] =
                             [pc |-> "decode", path |-> self.path,
                              cacheKey |-> self.cacheKey, ctime |-> self.ctime,
                              size |-> self.size, encoding |-> encoding]]
              /\ ret' = NoOutcome
              /\ UNCHANGED changeCache
      /\ run' = RunAfter(i, procs'[i], ret')

\* calculateHashForFile, lines 119-122, and getHashForPath, lines 49-62: the
\* read with the encoding answers, the entry is stored, the call returns.
DecodeDone(i) ==
  LET self == procs[i]
      file == fs[self.path]
      sourceCode == Decode(file.data, self.encoding)
      digest == Sha1Hex(Utf8Encode(sourceCode))
      info == BuildInfo(digest, Some(sourceCode), Null, self.path)
  IN  /\ self.pc = "decode"
      /\ UNCHANGED <<appRoot, failOnCacheMiss, fs, ctimeAdvances, snapshot, known>>
      /\ procs' = [procs EXCEPT ![i] = Idle]
      /\ IF ReadFails(file)
           THEN /\ ret' = Outcome(self.path, "ReadError", Null, 1, 2)
                /\ UNCHANGED changeCache
         ELSE /\ changeCache' = StoreEntry(changeCache, self.cacheKey,
                                           self.ctime, self.size, info)
              /\ ret' = Outcome(self.path, "miss",
                                Some(ReturnedOnMiss(info, Some(sourceCode), Null)),
                                1, 2)
      /\ run' = RunAfter(i, procs'[i], ret')

\* save, lines 105-108.
Save ==
  /\ snapshot' = Some(Gzip(JsonStringify(changeCache)))
  /\ snapshot' # snapshot
  /\ ret' = NoOutcome
  /\ UNCHANGED <<appRoot, failOnCacheMiss, changeCache, fs, ctimeAdvances, procs,
                 known, run>>

\* What loadFromFile makes of the bytes it read, line 21.
LoadedCache(buf) == JsonParse(Gunzip(buf))

\* loadFromFile, lines 17-23, called with failOnCacheMiss (the default, true,
\* when the caller gives none): the constructor receives it as appRoot.  The
\* loaded instance takes the place of the one in use, once no call of the
\* old one is in flight.
LoadFromFile(explicit, failOnCacheMissArg) ==
  /\ snapshot # Null
  /\ \A i \in Procs : procs[i] = Idle
  /\ appRoot' = JsBoolean(failOnCacheMissArg)
  /\ failOnCacheMiss' = FALSE
  /\ changeCache' = LoadedCache(Value(snapshot))
  /\ ret' = Outcome(<<>>, "loaded",
                    Some([explicit |-> explicit,
                          failOnCacheMiss |-> failOnCacheMissArg]),
                    0, 0)
  /\ known' = [p \in Paths |-> Null]
  /\ UNCHANGED <<fs, ctimeAdvances, snapshot, procs, run>>

\* The arguments loadFromFile can be called with: none, true, false.
LoadArguments == {<<FALSE, TRUE>>, <<TRUE, TRUE>>, <<TRUE, FALSE>>}

\* The environment writes a file: any content, and any ctime the clock allows.
WriteFile(path, data, ctime) ==
  /\ fs[path].kind # "dir"
  /\ fs[path] # RegularFile(data, ctime)
  /\ ctimeAdvances => ctime > fs[path].ctime
  /\ fs' = [fs EXCEPT ![path] = RegularFile(data, ctime)]
  /\ known' = [known EXCEPT ![path] = Null]
  /\ ret' = NoOutcome
  /\ UNCHANGED <<appRoot, failOnCacheMiss, changeCache, ctimeAdvances, snapshot,
                 procs, run>>

\* The timestamp a path keeps once it is no regular file: only an advancing
\* clock needs it.
KeptTime(path) == IF ctimeAdvances THEN fs[path].ctime ELSE 0

\* The environment removes a file or a directory.
Unlink(path) ==
  /\ fs[path].kind # "none"
  /\ fs' = [fs EXCEPT ![path] = NoFile(KeptTime(path))]
  /\ known' = [known EXCEPT ![path] = Null]
  /\ ret' = NoOutcome
  /\ UNCHANGED <<appRoot, failOnCacheMiss, changeCache, ctimeAdvances, snapshot,
                 procs, run>>

\* The environment makes a directory where nothing was.
MkDir(path) ==
  /\ fs[path].kind = "none"
  /\ fs' = [fs EXCEPT ![path] = Directory(KeptTime(path))]
  /\ known' = [known EXCEPT ![path] = Null]
  /\ ret' = NoOutcome
  /\ UNCHANGED <<appRoot, failOnCacheMiss, changeCache, ctimeAdvances, snapshot,
                 procs, run>>

\* ----------------------------------------------------------- specification

\* constructor, lines 11-15: any root, either mode, an empty cache.  The
\* file system starts with two regular files and either clock.
Init ==
  /\ appRoot \in {JsString(r) : r \in AppRoots}
  /\ failOnCacheMiss \in BOOLEAN
  /\ changeCache = <<>>
  /\ fs = [p \in Paths |-> RegularFile(DataA, 0)]
  /\ ctimeAdvances \in BOOLEAN
  /\ snapshot = Null
  /\ procs = [i \in Procs |-> Idle]
  /\ ret = NoOutcome
  /\ known = [p \in Paths |-> Null]
  /\ run = NoRun

\* The environment's steps on the paths it may touch, with the contents it
\* may write.
Env(touched, written) ==
  \/ \E p \in touched, d \in written, t \in Times : WriteFile(p, d, t)
  \/ \E p \in touched : Unlink(p)
  \/ \E p \in touched : MkDir(p)

\* The synchronous interface against a changing file system.
Next ==
  \/ \E p \in Paths : GetHashForPathSync(p)
  \/ Env(Paths, Contents)

Spec == Init /\ [][Next]_vars

\* The asynchronous interface against one changing file.
NextAsync ==
  \/ \E i \in Procs, p \in Paths : Call(i, p)
  \/ \E i \in Procs : StatDone(i)
  \/ \E i \in Procs : ReadDone(i)
  \/ \E i \in Procs : DecodeDone(i)
  \/ Env({PathAB}, SmallContents)

SpecAsync == Init /\ [][NextAsync]_vars

\* Saving and loading between synchronous lookups.
NextPersist ==
  \/ \E p \in Paths : GetHashForPathSync(p)
  \/ Env({PathAB}, Contents)
  \/ Save
  \/ \E a \in LoadArguments : LoadFromFile(a[1], a[2])

SpecPersist == Init /\ [][NextPersist]_vars

\* The cache key alone, for every root and path over a small alphabet.
Alphabet == {"/", "a", "b"}
StringsUpTo(n) == UNION {[1..m -> Alphabet] : m \in 0..n}
KeyRoots == StringsUpTo(MaxRootLen)
KeyPaths == {path \in StringsUpTo(MaxPathLen) : path # <<>> /\ path[1] = "/"}

InitKey ==
  /\ appRoot \in {JsString(r) : r \in KeyRoots}
  /\ failOnCacheMiss = FALSE
  /\ changeCache = <<>>
  /\ fs = [p \in Paths |-> RegularFile(DataA, 0)]
  /\ ctimeAdvances = FALSE
  /\ snapshot = Null
  /\ procs = [i \in Procs |-> Idle]
  /\ ret = NoOutcome
  /\ known = [p \in Paths |-> Null]
  /\ run = NoRun

\* Lines 26 and 66 applied to a path.
ComputeKey(absoluteFilePath) ==
  /\ ret' = Outcome(absoluteFilePath, "key",
                    Some(CacheKey(appRoot, absoluteFilePath)), 0, 0)
  /\ UNCHANGED <<appRoot, failOnCacheMiss, changeCache, fs, ctimeAdvances,
                 snapshot, procs, known, run>>

NextKey == \E path \in KeyPaths : ComputeKey(path)

SpecKey == InitKey /\ [][NextKey]_vars

\* Lines 26 and 66 applied to two paths on the same instance.
ComputeKeys(first, second) ==
  /\ first # second
  /\ ret' = Outcome(first, "keys",
                    Some([other |-> second,
                          cacheKey |-> CacheKey(appRoot, first),
                          otherKey |-> CacheKey(appRoot, second)]), 0, 0)
  /\ UNCHANGED <<appRoot, failOnCacheMiss, changeCache, fs, ctimeAdvances,
                 snapshot, procs, known, run>>

\* The short paths and the files of the model.
PairPaths == KeyPaths \cup Paths

NextKeys ==
  \E first \in PairPaths, second \in PairPaths : ComputeKeys(first, second)

SpecKeys == InitKey /\ [][NextKeys]_vars

\* The two calls getHashForPath(first) and getHashForPath(second) made one
\* after the other before either continues: lines 25-33 of each.
StartPair(first, second) ==
  LET started(p) ==
        [pc |-> "stat", path |-> p, cacheKey |-> CacheKey(appRoot, p),
         cacheEntry |-> CacheEntryOf(changeCache, CacheKey(appRoot, p))]
  IN  /\ run.phase = "none"
      /\ ~IsStrict(failOnCacheMiss)
      /\ first # second
      /\ \A i \in Procs : procs[i] = Idle
      /\ procs' = [i \in Procs |-> IF i = 1 THEN started(first)
                                   ELSE IF i = 2 THEN started(second)
                                   ELSE Idle]
      /\ run' = [phase |-> "running", cache0 |-> changeCache,
                 out |-> <<Null, Null>>]
      /\ ret' = NoOutcome
      /\ UNCHANGED <<appRoot, failOnCacheMiss, changeCache, fs, ctimeAdvances,
                     snapshot, known>>

\* Synchronous lookups and file changes first; then two asynchronous calls
\* for two paths run concurrently while the files stay as they are.
NextPair ==
  \/ run.phase = "none" /\ \E p \in Paths : GetHashForPathSync(p)
  \/ run.phase = "none" /\ Env(Paths, SmallContents)
  \/ \E p \in Paths, q \in Paths : StartPair(p, q)
  \/ \E i \in Procs : StatDone(i)
  \/ \E i \in Procs : ReadDone(i)
  \/ \E i \in Procs : DecodeDone(i)

SpecPair == Init /\ [][NextPair]_vars

\* A strict instance, through both interfaces.
InitStrict == Init /\ failOnCacheMiss

NextStrict ==
  \/ \E p \in Paths : GetHashForPathSync(p)
  \/ \E i \in Procs, p \in Paths : Call(i, p)
  \/ Env(Paths, Contents)

SpecStrict == InitStrict /\ [][NextStrict]_vars

\* A NUL and letters: few enough control characters for the UTF-8 decoding to
\* be refused at line 192, none in the UTF-16LE decoding.
DataWide == [i \in 1..WideLen |-> IF i = 1 THEN 0 ELSE 65]

\* Every content of the model, with a text in each encoding.
DerivedContents == Contents \cup {DataWide}

\* Both interfaces of a permissive instance without a root, one call at a
\* time, on one file that takes each of these contents.
InitDerive == Init /\ ~failOnCacheMiss /\ appRoot = JsString(RootNone)

NextDerive ==
  \/ GetHashForPathSync(PathAB)
  \/ Call(1, PathAB)
  \/ \E i \in Procs : StatDone(i)
  \/ \E i \in Procs : ReadDone(i)
  \/ \E i \in Procs : DecodeDone(i)
  \/ Env({PathAB}, DerivedContents)

SpecDerive == InitDerive /\ [][NextDerive]_vars

\* The static classifiers alone, on strings and buffers built from control
\* characters, letters, undecodable bytes and newlines.
TextLengths == {0, 1, 2, 50, 100, 800, EncodingWindow}
Repeat(x, n) == [i \in 1..n |-> x]

\* lead NULs, n letters A, trail NULs.
Bytes(lead, n, trail) == Repeat(0, lead) \o Repeat(65, n) \o Repeat(0, trail)
Buffers ==
  {Bytes(lead, n, trail) :
     lead \in 0..MaxControls, n \in TextLengths, trail \in {0, MaxControls}}
    \cup {Repeat(255, k) \o Repeat(65, n) : k \in 1..MaxControls, n \in {0, 100}}

\* The decoded strings of those buffers, in either encoding.
Strings == {Utf8Decode(b) : b \in Buffers} \cup {Utf16leDecode(b) : b \in Buffers}

InitStatic ==
  /\ appRoot = JsString(RootNone)
  /\ failOnCacheMiss = FALSE
  /\ changeCache = <<>>
  /\ fs = [p \in Paths |-> RegularFile(DataA, 0)]
  /\ ctimeAdvances = FALSE
  /\ snapshot = Null
  /\ procs = [i \in Procs |-> Idle]
  /\ ret = NoOutcome
  /\ known = [p \in Paths |-> Null]
  /\ run = NoRun

\* A call of a static method: its argument and its answer.
StaticCall(method, argument, answer) ==
  /\ ret' = Outcome(<<>>, method,
                    Some([argument |-> argument, answer |-> answer]), 0, 0)
  /\ UNCHANGED <<appRoot, failOnCacheMiss, changeCache, fs, ctimeAdvances,
                 snapshot, procs, known, run>>

ContainsControlCharacters(str) ==
  StaticCall("containsControlCharacters", str, containsControlCharacters(str))

DetectFileEncoding(buffer) ==
  StaticCall("detectFileEncoding", buffer, detectFileEncoding(buffer))

NextEncoding ==
  \/ \E str \in Strings : ContainsControlCharacters(str)
  \/ \E buffer \in Buffers : DetectFileEncoding(buffer)

SpecEncoding == InitStatic /\ [][NextEncoding]_vars

\* The heuristics alone.  Texts: newlines, letters, newlines; and lines of
\* equal width.
MinifiedLengths == {0, 20, 80, 81, 100, MinifiedWindow, MinifiedWindow + 76}
Text(lead, n, trail) ==
  Repeat(Newline, lead) \o Repeat(65, n) \o Repeat(Newline, trail)
Lines(count, width) ==
  [i \in 1..(count * (width + 1)) |->
     IF i % (width + 1) = 0 THEN Newline ELSE 65]
Texts ==
  {Text(lead, n, trail) :
     lead \in {0, 1, MaxNewlines}, n \in MinifiedLengths,
     trail \in {0, 1, MaxNewlines - 1, MaxNewlines}}
    \cup {Lines(count, width) : count \in 1..MaxNewlines, width \in {20, 80, 81}}

\* Texts with the marker on the last line, on an earlier line, and nowhere.
MarkedTexts ==
  {before \o marker \o after :
     before \in {<<>>, <<65, Newline>>},
     marker \in {<<>>, SourceMapMarker},
     after \in {<<>>, <<61, 120>>, <<Newline>>, <<Newline, 65>>}}

\* Paths of two directories and a file, in either separator style.
SegmentNames ==
  {<<"n", "o", "d", "e", "_", "m", "o", "d", "u", "l", "e", "s">>,
   <<"N", "O", "D", "E", "_", "M", "O", "D", "U", "L", "E", "S">>,
   <<"N", "o", "d", "e", "_", "M", "o", "d", "u", "l", "e", "s">>,
   <<"n", "o", "d", "e", "_", "m", "o", "d", "u", "l", "e", "s", "x">>,
   <<"x", "n", "o", "d", "e", "_", "m", "o", "d", "u", "l", "e", "s">>,
   <<"a", "t", "o", "m", ".", "a", "s", "a", "r">>,
   <<"A", "T", "O", "M", ".", "A", "S", "A", "R">>,
   <<"A", "t", "o", "m", ".", "A", "s", "a", "r">>,
   <<"a", "t", "o", "m", ".", "a", "s", "a", "r", ".", "b", "a", "k">>,
   <<"a", "t", "o", "m", "x", "a", "s", "a", "r">>,
   <<"p", "r", "o", "j", "e", "c", "t">>,
   <<"s", "r", "c">>,
   <<"p", "k", "g">>}
FileName == <<"f", ".", "j", "s">>
SegmentPaths ==
  {<<sep>> \o first \o <<sep>> \o second \o <<sep>> \o FileName :
     sep \in Separators, first \in SegmentNames, second \in SegmentNames}

ContentsAreMinified(source) ==
  StaticCall("contentsAreMinified", source, contentsAreMinified(source))

HasSourceMap(sourceCode) ==
  StaticCall("hasSourceMap", sourceCode, hasSourceMap(sourceCode))

IsInNodeModules(filePath) ==
  StaticCall("isInNodeModules", filePath, isInNodeModules(filePath))

NextHeuristics ==
  \/ \E source \in Texts : ContentsAreMinified(source)
  \/ \E sourceCode \in MarkedTexts : HasSourceMap(sourceCode)
  \/ \E filePath \in SegmentPaths : IsInNodeModules(filePath)

SpecHeuristics == InitStatic /\ [][NextHeuristics]_vars

\* ------------------------------------------------------------------ claims

\* The digest of a file's content: of its decoded text when an encoding is
\* detected (an empty file is empty text), of its raw bytes otherwise.
ContentHash(data) ==
  LET encoding == detectFileEncoding(data)
  IN  IF encoding = "undefined" THEN Sha1Hex(data)
      ELSE IF encoding = "true" THEN Sha1Hex(<<>>)
      ELSE Sha1Hex(Utf8Encode(Decode(data, encoding)))

\* No two paths of the universe share a cache key on this instance.
KeysAreDistinct ==
  \A p \in Paths, q \in Paths :
    p # q => CacheKey(appRoot, p) # CacheKey(appRoot, q)

\* A lookup just took the hit path.
JustHit == ret.how = "hit"

\* The hash a hit returned is the hash of the file's content now.
HitHashIsCurrent ==
  Value(ret.value).hash = ContentHash(fs[ret.path].data)

PermissiveLookup(p) == GetHashForPathSync(p) /\ ~failOnCacheMiss

\* The lookup of this step took the hit path, read no content and returned
\* the facts known for p.
RepeatsKnownFacts(p) ==
  /\ ret'.how = "hit"
  /\ ret'.reads = 0
  /\ FactsOf(Value(ret'.value)) = Value(known[p])

C3_AsStated ==
  [][\A p \in Paths :
       LET cacheKey == CacheKey(appRoot, p)
       IN  ( /\ PermissiveLookup(p)
             /\ KeysAreDistinct
             /\ IsFile(fs[p])
             /\ cacheKey \in DOMAIN changeCache
             /\ changeCache[cacheKey].size # SizeOf(fs[p]) )
           => ( /\ ret'.how = "miss"
                /\ ret'.reads = 1
                /\ Value(ret'.value).hash = ContentHash(fs[p].data)
                /\ changeCache'[cacheKey] =
                     [ctime |-> fs[p].ctime, size |-> SizeOf(fs[p]),
                      info |-> FactsOf(Value(ret'.value))] )]_vars

\* A step that is a lookup of p through either interface.
AnyLookupStart(p) == GetHashForPathSync(p) \/ \E i \in Procs : Call(i, p)

C5_AsStated ==
  ret.how = "loaded" => failOnCacheMiss = Value(ret.value).failOnCacheMiss

PrefixStripped(root, path) ==
  IF root # <<>> /\ OccursAt(path, root, 1)
    THEN SubSeq(path, Len(root) + 1, Len(path))
  ELSE path

\* C7 as stated: the cache key is the path with the root removed only where
\* the root is a leading prefix of the path.
C7_AsStated ==
  ret.how = "key" => Value(ret.value) = PrefixStripped(appRoot.str, ret.path)

\* C8: every entry of the mapping has a timestamp, a size and the five facts,
\* and nothing else: no content.
C8_EntriesAreComplete ==
  \A k \in DOMAIN changeCache :
    LET entry == changeCache[k]
    IN  /\ DOMAIN entry = {"ctime", "size", "info"}
        /\ entry.ctime \in Nat
        /\ entry.size \in Nat
        /\ DOMAIN entry.info = InfoFields
        /\ DOMAIN entry.info.hash = {"sha1"}
        /\ entry.info.isMinified \in BOOLEAN
        /\ entry.info.isInNodeModules \in BOOLEAN
        /\ entry.info.hasSourceMap \in BOOLEAN
        /\ entry.info.isFileBinary \in BOOLEAN

\* C8 witness: a call has just failed while another is between its two reads
\* and the mapping holds an entry.
C8_Witness ==
  /\ ret.how \in {"ReadError", "TypeError"}
  /\ \E i \in Procs : procs[i].pc = "decode"
  /\ changeCache # <<>>
  /\ C8_EntriesAreComplete

\* The mappings differ at most under key k.
SameExceptAt(cache1, cache2, k) ==
  /\ DOMAIN cache1 \ {k} = DOMAIN cache2 \ {k}
  /\ \A j \in DOMAIN cache1 \ {k} : cache1[j] = cache2[j]

Alone(cache, p) == getHashForPathSync(cache, appRoot, FALSE, fs[p], p)

MetadataUnchanged(cacheEntry, file) ==
  /\ cacheEntry # Null
  /\ Value(cacheEntry).ctime >= file.ctime
  /\ Value(cacheEntry).size = Len(file.data)

\* C11: a permissive lookup whose stat succeeds takes the hit path exactly
\* when it found an entry under the key whose timestamp is greater than or
\* equal to the current one and whose size equals the current one; the hit
\* reads no content, returns the stored facts and leaves the mapping as it
\* was; in every other case the lookup goes on to read the content.  The
\* asynchronous lookup finds the entry when it is called (line 27).
C11_HitExactlyWhenMetadataUnchanged ==
  [][/\ \A p \in Paths :
          LET found == CacheEntryOf(changeCache, CacheKey(appRoot, p))
          IN  (PermissiveLookup(p) /\ IsFile(fs[p]))
              => IF MetadataUnchanged(found, fs[p])
                   THEN /\ ret'.how = "hit" /\ ret'.reads = 0
                        /\ Value(ret'.value) = Value(found).info
                        /\ changeCache' = changeCache
                   ELSE ret'.how # "hit" /\ ret'.reads >= 1
     /\ \A i \in Procs :
          (StatDone(i) /\ IsFile(fs[procs[i].path]))
              => IF MetadataUnchanged(procs[i].cacheEntry, fs[procs[i].path])
                   THEN /\ ret'.how = "hit" /\ ret'.reads = 0
                        /\ Value(ret'.value) = Value(procs[i].cacheEntry).info
                        /\ changeCache' = changeCache
                        /\ procs'[i] = Idle
                   ELSE /\ procs'[i].pc = "read"
                        /\ ret'.how = "none"]_vars

\* C11 witness: an asynchronous lookup took the hit path on an entry that a
\* file change had made stale before and a later lookup replaced, the other
\* call being in the middle of its reads.
C11_Witness ==
  /\ JustHit /\ ret.reads = 0
  /\ fs[ret.path].ctime > 0
  /\ \E i \in Procs : procs[i] # Idle /\ procs[i].pc = "decode"
  /\ CacheKey(appRoot, ret.path) \in DOMAIN changeCache
  /\ changeCache[CacheKey(appRoot, ret.path)].info = Value(ret.value)

\* C12 as stated: when the stat step of a lookup finds the entry of its key
\* stale and goes on to read the content, the mapping it leaves has no entry
\* under that key; and a lookup that then fails with a read error, no other
\* call being in flight, leaves no entry under its key.
C12_AsStated ==
  [][\A i \in Procs :
       /\ (StatDone(i) /\ procs[i].cacheEntry # Null /\ procs'[i] # Idle)
            => procs[i].cacheKey \notin DOMAIN changeCache'
       /\ ( /\ ReadDone(i) \/ DecodeDone(i)
            /\ ret'.how = "ReadError"
            /\ \A j \in Procs \ {i} : procs[j] = Idle )
            => procs[i].cacheKey \notin DOMAIN changeCache']_vars

\* The binary-garbage test as the specification words it: the control-like
\* characters are the code points 0 to 7 and the replacement character.
ControlLikeCount(str) ==
  Cardinality({i \in 1..Len(str) :
                 str[i] < ControlBelow \/ str[i] = ReplacementCharacter})
LooksBinary(str) ==
  LET count == ControlLikeCount(str)
  IN  IF count > MaxControlCount THEN TRUE
      ELSE IF count = 0 THEN FALSE
      ELSE ~(count * RatioDen < RatioNum * Len(str))

\* The first of UTF-8, UTF-16LE whose decoding of the first 4096 bytes is
\* judged text by that test, "undefined" (binary) when neither is.
FirstTextEncoding(buffer) ==
  LET buf == SubSeq(buffer, 1, IF Len(buffer) < EncodingWindow THEN Len(buffer)
                               ELSE EncodingWindow)
  IN  IF ~LooksBinary(Utf8Decode(buf)) THEN "utf8"
      ELSE IF ~LooksBinary(Utf16leDecode(buf)) THEN "utf16le"
      ELSE "undefined"

\* C13 as stated: containsControlCharacters answers binary when more than 16
\* characters are control-like, text when none is, and otherwise binary
\* exactly when their ratio is at least 0.02; detectFileEncoding of a
\* non-empty buffer selects the first encoding judged text by that test.
C13_AsStated ==
  /\ ret.how = "containsControlCharacters"
       => Value(ret.value).answer = LooksBinary(Value(ret.value).argument)
  /\ (ret.how = "detectFileEncoding" /\ Value(ret.value).argument # <<>>)
       => Value(ret.value).answer = FirstTextEncoding(Value(ret.value).argument)

\* The minification heuristic as the specification words it: the window is
\* the first 1024 characters and the newlines are counted within it.
MinifiedInWindow(text) ==
  LET window == IF Len(text) > MinifiedWindow THEN MinifiedWindow ELSE Len(text)
      newlines == Cardinality({i \in 1..window : text[i] = Newline})
  IN  IF newlines = 0 THEN window > MinifiedLineLength
      ELSE window > MinifiedLineLength * newlines

\* C14 as stated: contentsAreMinified depends only on the first 1024
\* characters: with W the window length and K the newlines among the first W
\* characters, it answers W > 80 when K = 0 and W / K > 80 otherwise.
C14_AsStated ==
  ret.how = "contentsAreMinified"
    => Value(ret.value).answer = MinifiedInWindow(Value(ret.value).argument)

\* Lower case for the letters of both directory names.
LowerOfBothNames ==
  [c \in {"N","O","D","E","M","U","L","S","A","T","R"} |->
     CASE c = "N" -> "n" [] c = "O" -> "o" [] c = "D" -> "d" [] c = "E" -> "e"
       [] c = "M" -> "m" [] c = "U" -> "u" [] c = "L" -> "l" [] c = "S" -> "s"
       [] c = "A" -> "a" [] c = "T" -> "t" [] c = "R" -> "r"]
LowerCaseOfNames(s) ==
  [i \in 1..Len(s) |-> IF s[i] \in DOMAIN LowerOfBothNames
                         THEN LowerOfBothNames[s[i]] ELSE s[i]]

\* The path has a segment, between two separators, that is the name without
\* regard to case.
HasSegmentNamed(filePath, name) ==
  \E i \in 1..Len(filePath) :
    /\ filePath[i] \in Separators
    /\ i + Len(name) + 1 <= Len(filePath)
    /\ LowerCaseOfNames(SubSeq(filePath, i + 1, i + Len(name))) = name
    /\ filePath[i + Len(name) + 1] \in Separators

\* C15 as stated: isInNodeModules is true exactly when the path has a
\* segment, delimited by separators, named node_modules or atom.asar, both
\* matched without regard to case.
C15_AsStated ==
  ret.how = "isInNodeModules"
    => Value(ret.value).answer
         = ( \/ HasSegmentNamed(Value(ret.value).argument, NodeModulesName)
             \/ HasSegmentNamed(Value(ret.value).argument, AtomAsarName) )

\* A result of the miss path is well formed: it carries the raw bytes and
\* isFileBinary, with the heuristics' answers for the empty string, or the
\* decoded text and not isFileBinary; never both, never neither.
WellFormedResult(value) ==
  LET hasBytes == "binaryData" \in DOMAIN value
      hasText == "sourceCode" \in DOMAIN value
  IN  /\ hasBytes # hasText
      /\ value.isFileBinary = hasBytes
      /\ hasBytes => /\ value.isMinified = contentsAreMinified(<<>>)
                      /\ value.hasSourceMap = hasSourceMap(<<>>)
                      /\ ~value.isMinified /\ ~value.hasSourceMap

\* C16: every result of the miss path of a permissive lookup carries exactly
\* one of the decoded text and the raw bytes: the raw bytes, with
\* isFileBinary, when the content read had no detected encoding, the
\* decoded text, without isFileBinary, otherwise; for a binary file
\* isMinified and hasSourceMap are the answers for the empty string, false.
C16_ExactlyOneContent ==
  /\ [](ret.how = "miss" => WellFormedResult(Value(ret.value)))
  /\ [][/\ (GetHashForPathSync(PathAB) /\ ret'.how = "miss")
            => LET value == Value(ret'.value)
                   encoding == detectFileEncoding(fs[PathAB].data)
               IN  IF encoding = "undefined"
                     THEN /\ value.isFileBinary
                          /\ value.binaryData = fs[PathAB].data
                   ELSE /\ ~value.isFileBinary
                        /\ value.sourceCode = Decode(fs[PathAB].data, encoding)
        /\ \A i \in Procs :
             /\ (ReadDone(i) /\ ret'.how = "miss")
                  => /\ detectFileEncoding(fs[procs[i].path].data) = "undefined"
                     /\ Value(ret'.value).isFileBinary
                     /\ Value(ret'.value).binaryData = fs[procs[i].path].data
             /\ (ReadDone(i) /\ procs'[i] # Idle)
                  => detectFileEncoding(fs[procs[i].path].data)
                       \in {"utf8", "utf16le"}
             /\ (DecodeDone(i) /\ ret'.how = "miss")
                  => /\ ~Value(ret'.value).isFileBinary
                     /\ Value(ret'.value).sourceCode
                          = Decode(fs[procs[i].path].data, procs[i].encoding)]_vars

\* C16 witness: a lookup returned the raw bytes of the binary file, written
\* over the text without a change of timestamp, and stored an entry of its
\* size.
C16_Witness ==
  /\ ret.how = "miss"
  /\ Value(ret.value).isFileBinary
  /\ Value(ret.value).binaryData = DataBinary
  /\ "sourceCode" \notin DOMAIN Value(ret.value)
  /\ known[PathAB] = Null
  /\ fs[PathAB].ctime = 0
  /\ changeCache[PathAB].ctime = 0 /\ changeCache[PathAB].size = BinaryLen

\* C17 as stated: a permissive lookup of a regular file of zero bytes
\* succeeds: on the miss path it returns the empty text, not binary, not
\* minified, without source map, and stores an entry of size 0; it raises
\* nothing.
C17_AsStated ==
  [][(GetHashForPathSync(PathAB) /\ IsFile(fs[PathAB]) /\ fs[PathAB].data = <<>>)
       => \/ ret'.how = "hit"
          \/ /\ ret'.how = "miss"
             /\ Value(ret'.value).sourceCode = <<>>
             /\ ~Value(ret'.value).isFileBinary
             /\ ~Value(ret'.value).isMinified
             /\ ~Value(ret'.value).hasSourceMap
             /\ changeCache'[CacheKey(appRoot, PathAB)].size = 0]_vars

\* C18: when every modification gives the file a timestamp greater than any
\* it had before, then however the modifications interleave with the stat,
\* read and store steps of asynchronous lookups of a path, overlapping ones
\* included, an asynchronous lookup of that path that takes the hit path
\* returns the hash of the content the file has then.
C18_AsyncHitIsCurrent ==
  [][\A i \in Procs :
       (StatDone(i) /\ ctimeAdvances /\ KeysAreDistinct /\ ret'.how = "hit")
         => Value(ret'.value).hash = ContentHash(fs[procs[i].path].data)]_vars

\* C18 witness: under an advancing clock the file was modified, a lookup took
\* the hit path on the new content while an overlapping lookup of the same
\* path is between its two reads.
C18_Witness ==
  /\ ctimeAdvances /\ KeysAreDistinct /\ JustHit
  /\ ret.path = PathAB
  /\ fs[PathAB].ctime > 0
  /\ Value(ret.value).hash = Sha1Hex(DataB)
  /\ \E i \in Procs :
       procs[i] # Idle /\ procs[i].pc = "decode" /\ procs[i].path = PathAB

\* The keys of two distinct paths were computed on an instance with a
\* non-empty root.
KeysOfTwoPaths == ret.how = "keys" /\ appRoot.str # <<>>

\* Both paths begin with the root.
BothUnderRoot ==
  /\ OccursAt(ret.path, appRoot.str, 1)
  /\ OccursAt(Value(ret.value).other, appRoot.str, 1)

\* C19 as stated: with a non-empty root, two distinct absolute paths never
\* have the same cache key.
C19_AsStated ==
  KeysOfTwoPaths => Value(ret.value).cacheKey # Value(ret.value).otherKey

\* C19, amended: with a non-empty root, two distinct absolute paths that both
\* begin with the root never have the same cache key, and their keys are
\* what is left of each after the root.
C19_PathsUnderRootHaveDistinctKeys ==
  (KeysOfTwoPaths /\ BothUnderRoot)
    => /\ Value(ret.value).cacheKey # Value(ret.value).otherKey
       /\ Value(ret.value).cacheKey = PrefixStripped(appRoot.str, ret.path)
       /\ Value(ret.value).otherKey
            = PrefixStripped(appRoot.str, Value(ret.value).other)

\* C19 witness: two paths under the root, the root occurring once more in
\* each, with different keys.
C19_Witness ==
  /\ KeysOfTwoPaths /\ BothUnderRoot
  /\ IndexOf(Value(ret.value).cacheKey, appRoot.str) >= 0
  /\ IndexOf(Value(ret.value).otherKey, appRoot.str) >= 0
  /\ Value(ret.value).cacheKey # Value(ret.value).otherKey

\* The instance in use was made by the constructor, not by loadFromFile.
Constructed == appRoot \in {JsString(root) : root \in AppRoots}

\* C20 as stated: when the instance with root R that saved the snapshot is
\* replaced by the one loaded from it, then for every path P it had looked
\* up and whose facts were saved, the loaded instance computes the key the
\* entry was saved under, and its lookup of P returns the saved facts,
\* without CacheMissError and without a content read; checked where the file
\* still has the timestamp and the size the entry recorded.
C20_AsStated ==
  [][\A a \in LoadArguments, p \in Paths :
       LET saved == LoadedCache(Value(snapshot))
           savedKey == CacheKey(appRoot, p)
           lookup == getHashForPathSync(changeCache', appRoot', failOnCacheMiss',
                                        fs[p], p).ret
       IN  ( /\ LoadFromFile(a[1], a[2])
             /\ Constructed
             /\ known[p] # Null
             /\ savedKey \in DOMAIN saved
             /\ saved[savedKey].info = Value(known[p])
             /\ IsFile(fs[p])
             /\ MetadataUnchanged(Some(saved[savedKey]), fs[p]) )
           => /\ CacheKey(appRoot', p) = savedKey
              /\ lookup.how \in {"strict", "hit"}
              /\ lookup.reads = 0
              /\ Value(lookup.value) = saved[savedKey].info]_vars

====
